---- MODULE Spec2Model ----
(***************************************************************************)
(* Fork-choice core of highway-core: Tally / Tallies (tallies.rs) and Vote *)
(* construction (vote.rs).  Block hashes and vote hashes are integers,     *)
(* ordered as the code orders C::VoteHash (Ord).  The State consumed by    *)
(* the core (block tree, vote store, find_ancestor) is modelled from its   *)
(* contract in section 4.1 of the specification.  Weights are small        *)
(* naturals: every sum stays far below the range of u64.                   *)
(***************************************************************************)
EXTENDS Integers, Sequences, FiniteSets, Bags, TLC

\* ------------------------------------------------------------------ bounds
\* Number of Tallies::add calls in one behaviour.
MaxAdds == 3
\* Budget of SpecTally: operations on the single Tally plus entries fed to it.
MaxTallyOps == 3
\* Number of validators (the length of every Panorama).
NumValidators == 2
\* Number of wire votes handed to Vote::new in one behaviour of SpecVote.
MaxVotes == 5
\* Number of Panorama::update calls after one Panorama::new in SpecPanorama.
MaxUpdates == 3
\* Width of seq_number (u64): trailing_zeros of 0.
U64Bits == 64
\* Width of a weight in SpecMachine (the code's u64, scaled down): the
\* weights of MaxAdds votes fit, twice a weight need not.
WordBits == 2

\* The block hashes of the State.
Blocks == 1..5
\* "No block": Option::None of a hash.
NoBlock == 0

VARIABLES
    parent,     \* State: parent hash of every block (NoBlock at genesis)
    tallies,    \* the Tallies: height -> Tally
    fed,        \* bag of the (height, hash, weight) triples added since default()
    pure,       \* TRUE while tallies is exactly from_iter of fed (no filter yet)
    nAdds,      \* number of add calls so far
    op,         \* the last operation and its arguments / result
    tally,      \* SpecTally: one Tally value (NoTally when there is none)
    top,        \* SpecTally: the last Tally operation and its arguments
    nOps,       \* SpecTally: number of operations so far
    votes,      \* SpecVote: the votes of the State, by hash
    pan,        \* SpecVote: the latest observation of every validator
    vres,       \* SpecVote: the last call of Vote::new, inputs and result
    nVotes,     \* SpecVote: number of calls of Vote::new so far
    pano,       \* SpecPanorama: the Panorama
    plog,       \* SpecPanorama: its size and the updates made since new
    pop         \* SpecPanorama: the last Panorama operation and its result

talliesVars == <<tallies, fed, pure, nAdds, op>>
tallyVars == <<tally, top, nOps>>
voteVars == <<votes, pan, vres, nVotes>>
panVars == <<pano, plog, pop>>
vars == <<parent, talliesVars, tallyVars, voteVars, panVars>>

\* ------------------------------------------------------------ State (4.1)
RECURSIVE HeightIn(_, _)
HeightIn(p, b) == IF p[b] = NoBlock THEN 0 ELSE 1 + HeightIn(p, p[b])

RECURSIVE Reaches(_, _, _)
\* b reaches a root of p in at most n parent steps
Reaches(p, b, n) ==
    IF p[b] = NoBlock THEN TRUE
    ELSE IF n = 0 THEN FALSE
    ELSE Reaches(p, p[b], n - 1)

\* Blocks form a tree rooted at the unique genesis.  Hashes are compared only
\* between blocks of one height (the keys of one Tally), so every tree is, up
\* to a renaming that keeps the order of the hashes within each height, one
\* whose hashes grow from parent to child; those are the trees enumerated.
IsTree(p) ==
    /\ Cardinality({b \in Blocks : p[b] = NoBlock}) = 1
    /\ \A b \in Blocks : Reaches(p, b, Cardinality(Blocks))
    /\ \A b \in Blocks : p[b] < b

Trees == {p \in [Blocks -> Blocks \cup {NoBlock}] : IsTree(p)}

Height(b) == HeightIn(parent, b)

BlockParent(b) == parent[b]

RECURSIVE find_ancestor(_, _)
\* The ancestor of b at height h; NoBlock if h is above b.
find_ancestor(b, h) ==
    IF Height(b) < h THEN NoBlock
    ELSE IF Height(b) = h THEN b
    ELSE find_ancestor(parent[b], h)

\* ------------------------------------------------------------------ Tally
\* (u64, &VoteHash) tuples compare lexicographically; max of two of them.
PairLess(x, y) == x[1] < y[1] \/ (x[1] = y[1] /\ x[2] < y[2])
PairMax(x, y) == IF PairLess(x, y) THEN y ELSE x

RECURSIVE SortedSeq(_)
\* The elements of a set of integers in ascending order (BTreeMap iteration).
SortedSeq(S) ==
    IF S = {} THEN <<>>
    ELSE LET m == CHOOSE x \in S : \A y \in S : x <= y
         IN  <<m>> \o SortedSeq(S \ {m})

\* Option<Tally>::None
NoTally == [votes |-> [x \in {} |-> 0], max |-> <<0, NoBlock>>]
IsNoTally(t) == DOMAIN t.votes = {}

TallyNew(bhash, w) == [votes |-> [x \in {bhash} |-> w], max |-> <<w, bhash>>]

\* add that keeps the old maximum on a tie of weights (no hash tie-break)
TallyAddNoTieBreak(t, bhash, weight) ==
    LET w == (IF bhash \in DOMAIN t.votes THEN t.votes[bhash] ELSE 0) + weight
    IN  [votes |-> [x \in DOMAIN t.votes \cup {bhash} |->
                        IF x = bhash THEN w ELSE t.votes[x]],
         max   |-> IF w > t.max[1] THEN <<w, bhash>> ELSE t.max]

\* add in which the block added last wins a tie of weights
TallyAddLastWins(t, bhash, weight) ==
    LET w == (IF bhash \in DOMAIN t.votes THEN t.votes[bhash] ELSE 0) + weight
    IN  [votes |-> [x \in DOMAIN t.votes \cup {bhash} |->
                        IF x = bhash THEN w ELSE t.votes[x]],
         max   |-> IF w >= t.max[1] THEN <<w, bhash>> ELSE t.max]

\* add that stores the weight instead of accumulating it
TallyAddOverwrite(t, bhash, weight) ==
    [votes |-> [x \in DOMAIN t.votes \cup {bhash} |->
                    IF x = bhash THEN weight ELSE t.votes[x]],
     max   |-> PairMax(<<weight, bhash>>, t.max)]

TallyAdd(t, bhash, weight) ==
    LET w == (IF bhash \in DOMAIN t.votes THEN t.votes[bhash] ELSE 0) + weight
    IN  [votes |-> [x \in DOMAIN t.votes \cup {bhash} |->
                        IF x = bhash THEN w ELSE t.votes[x]],
         max   |-> PairMax(<<w, bhash>>, t.max)]

RECURSIVE TallyExtend(_, _)
\* iter is a sequence of <<bhash, w>>
TallyExtend(t, iter) ==
    IF iter = <<>> THEN t
    ELSE TallyExtend(TallyAdd(t, Head(iter)[1], Head(iter)[2]), Tail(iter))

\* &Tally into_iter / votes.iter(): entries in ascending hash order
TallyIter(t) ==
    LET ks == SortedSeq(DOMAIN t.votes)
    IN  [i \in 1..Len(ks) |-> <<ks[i], t.votes[ks[i]]>>]

try_from_iter(iter) ==
    IF iter = <<>> THEN NoTally
    ELSE TallyExtend(TallyNew(Head(iter)[1], Head(iter)[2]), Tail(iter))

\* parents() panics (unwrap of None) if an entry is a block without parent
ParentsPanics(t) == \E b \in DOMAIN t.votes : BlockParent(b) = NoBlock

\* parents that collects the mapped entries without summing them: a later
\* child overwrites the weight of an earlier one with the same parent
TallyParentsOverwrite(t) ==
    LET ps == {BlockParent(b) : b \in DOMAIN t.votes}
        last(p) == CHOOSE b \in DOMAIN t.votes :
                      /\ BlockParent(b) = p
                      /\ \A c \in DOMAIN t.votes : BlockParent(c) = p => c <= b
        pvotes == [p \in ps |-> t.votes[last(p)]]
        top2 == CHOOSE p \in ps : \A q \in ps :
                      ~PairLess(<<pvotes[p], p>>, <<pvotes[q], q>>)
    IN  [votes |-> pvotes, max |-> <<pvotes[top2], top2>>]

TallyParents(t) ==
    LET it == TallyIter(t)
    IN  try_from_iter([i \in 1..Len(it) |-> <<BlockParent(it[i][1]), it[i][2]>>])

RECURSIVE SumSeq(_)
SumSeq(s) == IF s = <<>> THEN 0 ELSE Head(s)[2] + SumSeq(Tail(s))

TallyWeight(t) == SumSeq(TallyIter(t))

max_w(t) == t.max[1]

max_bhash(t) == t.max[2]

\* the predicate that keeps every block with an ancestor at `height`
KeepDescAny(pair, height, bhash) == find_ancestor(pair[1], height) # NoBlock

KeepDesc(pair, height, bhash) == find_ancestor(pair[1], height) = bhash

RECURSIVE FilterSeq(_, _, _)
FilterSeq(iter, height, bhash) ==
    IF iter = <<>> THEN <<>>
    ELSE (IF KeepDesc(Head(iter), height, bhash) THEN <<Head(iter)>> ELSE <<>>)
         \o FilterSeq(Tail(iter), height, bhash)

\* filter that keeps the cached maximum of the unfiltered tally
TallyFilterStaleMax(t, height, bhash) ==
    LET f == try_from_iter(FilterSeq(TallyIter(t), height, bhash))
    IN  IF IsNoTally(f) THEN f ELSE [votes |-> f.votes, max |-> t.max]

TallyFilter(t, height, bhash) ==
    try_from_iter(FilterSeq(TallyIter(t), height, bhash))

\* ---------------------------------------------------------------- Tallies
TalliesDefault == [h \in {} |-> NoTally]

\* add that also credits the parent of the block, one height below
TalliesAddEager(T, height, bhash, weight) ==
    LET hs == IF height > 0 THEN {height, height - 1} ELSE {height}
        blk(h) == IF h = height THEN bhash ELSE BlockParent(bhash)
    IN  [h \in DOMAIN T \cup hs |->
            IF h \in hs
            THEN IF h \in DOMAIN T THEN TallyAdd(T[h], blk(h), weight)
                 ELSE TallyNew(blk(h), weight)
            ELSE T[h]]

TalliesAdd(T, height, bhash, weight) ==
    [h \in DOMAIN T \cup {height} |->
        IF h = height
        THEN IF height \in DOMAIN T THEN TallyAdd(T[height], bhash, weight)
             ELSE TallyNew(bhash, weight)
        ELSE T[h]]

RECURSIVE from_iter_onto(_, _)
from_iter_onto(T, iter) ==
    IF iter = <<>> THEN T
    ELSE from_iter_onto(TalliesAdd(T, Head(iter)[1], Head(iter)[2], Head(iter)[3]),
                        Tail(iter))

\* iter is a sequence of <<height, bhash, weight>>
from_iter(iter) == from_iter_onto(TalliesDefault, iter)

\* filter that keeps the tally at `height` itself (>= instead of >)
TalliesFilterKeepsHeight(T, height, bhash) ==
    LET relevant == {h \in DOMAIN T : h >= height}
        kept == {h \in relevant : ~IsNoTally(TallyFilter(T[h], height, bhash))}
    IN  [h \in kept |-> TallyFilter(T[h], height, bhash)]

\* filter that keeps the tallies it has emptied (map instead of filter_map)
TalliesFilterKeepsEmpty(T, height, bhash) ==
    LET relevant == {h \in DOMAIN T : h > height}
    IN  [h \in relevant |-> TallyFilter(T[h], height, bhash)]

TalliesFilter(T, height, bhash) ==
    LET relevant == {h \in DOMAIN T : h > height}
        kept == {h \in relevant : ~IsNoTally(TallyFilter(T[h], height, bhash))}
    IN  [h \in kept |-> TallyFilter(T[h], height, bhash)]

RECURSIVE SumTallies(_, _)
SumTallies(T, hs) ==
    IF hs = {} THEN 0
    ELSE LET h == CHOOSE x \in hs : TRUE
         IN  TallyWeight(T[h]) + SumTallies(T, hs \ {h})

TotalWeight(T) == SumTallies(T, DOMAIN T)

MaxKey(T) == CHOOSE h \in DOMAIN T : \A g \in DOMAIN T : g <= h

\* Results of find_decided: None, Some((height, bhash)), or a panic.
ResNone == [bhash |-> NoBlock, height |-> 0, kind |-> "None"]
ResSome(h, b) == [bhash |-> b, height |-> h, kind |-> "Some"]
ResPanic == [bhash |-> NoBlock, height |-> 0, kind |-> "Panic"]

RECURSIVE DecideLoopTiesDecide(_, _, _, _)
\* the loop with a non-strict majority test (>= instead of >)
DecideLoopTiesDecide(T, total_weight, prev, height) ==
    IF height < 0 THEN ResSome(0, max_bhash(prev))
    ELSE IF ParentsPanics(prev) THEN ResPanic
    ELSE LET par == TallyParents(prev)
             h_tally == IF height \in DOMAIN T
                        THEN TallyExtend(par, TallyIter(T[height]))
                        ELSE par
         IN  IF max_w(h_tally) * 2 >= total_weight
             THEN LET filtered == TallyFilter(prev, height, max_bhash(h_tally))
                  IN  IF ~IsNoTally(filtered)
                      THEN ResSome(height + 1, max_bhash(filtered))
                      ELSE ResSome(height, max_bhash(h_tally))
             ELSE DecideLoopTiesDecide(T, total_weight, h_tally, height - 1)

RECURSIVE DecideLoopNoFallback(_, _, _, _)
\* the loop that reports None when no height has a majority
DecideLoopNoFallback(T, total_weight, prev, height) ==
    IF height < 0 THEN ResNone
    ELSE IF ParentsPanics(prev) THEN ResPanic
    ELSE LET par == TallyParents(prev)
             h_tally == IF height \in DOMAIN T
                        THEN TallyExtend(par, TallyIter(T[height]))
                        ELSE par
         IN  IF max_w(h_tally) * 2 > total_weight
             THEN LET filtered == TallyFilter(prev, height, max_bhash(h_tally))
                  IN  IF ~IsNoTally(filtered)
                      THEN ResSome(height + 1, max_bhash(filtered))
                      ELSE ResSome(height, max_bhash(h_tally))
             ELSE DecideLoopNoFallback(T, total_weight, h_tally, height - 1)

RECURSIVE DecideLoopMajorityBlock(_, _, _, _)
\* the loop that returns the majority block itself, never one of its children
DecideLoopMajorityBlock(T, total_weight, prev, height) ==
    IF height < 0 THEN ResSome(0, max_bhash(prev))
    ELSE IF ParentsPanics(prev) THEN ResPanic
    ELSE LET par == TallyParents(prev)
             h_tally == IF height \in DOMAIN T
                        THEN TallyExtend(par, TallyIter(T[height]))
                        ELSE par
         IN  IF max_w(h_tally) * 2 > total_weight
             THEN ResSome(height, max_bhash(h_tally))
             ELSE DecideLoopMajorityBlock(T, total_weight, h_tally, height - 1)

RECURSIVE DecideLoopUnfiltered(_, _, _, _)
\* the loop that takes the best block of prev_tally without filtering it
DecideLoopUnfiltered(T, total_weight, prev, height) ==
    IF height < 0 THEN ResSome(0, max_bhash(prev))
    ELSE IF ParentsPanics(prev) THEN ResPanic
    ELSE LET par == TallyParents(prev)
             h_tally == IF height \in DOMAIN T
                        THEN TallyExtend(par, TallyIter(T[height]))
                        ELSE par
         IN  IF max_w(h_tally) * 2 > total_weight
             THEN ResSome(height + 1, max_bhash(prev))
             ELSE DecideLoopUnfiltered(T, total_weight, h_tally, height - 1)

RECURSIVE DecideLoopBelowGenesis(_, _, _, _)
\* the loop running one height too far (0..=max_height)
DecideLoopBelowGenesis(T, total_weight, prev, height) ==
    IF height < -1 THEN ResSome(0, max_bhash(prev))
    ELSE IF ParentsPanics(prev) THEN ResPanic
    ELSE LET par == TallyParents(prev)
             h_tally == IF height \in DOMAIN T
                        THEN TallyExtend(par, TallyIter(T[height]))
                        ELSE par
         IN  IF max_w(h_tally) * 2 > total_weight
             THEN LET filtered == TallyFilter(prev, height, max_bhash(h_tally))
                  IN  IF ~IsNoTally(filtered)
                      THEN ResSome(height + 1, max_bhash(filtered))
                      ELSE ResSome(height, max_bhash(h_tally))
             ELSE DecideLoopBelowGenesis(T, total_weight, h_tally, height - 1)

RECURSIVE DecideLoop(_, _, _, _)
\* One iteration of the loop at `height` (counting down), prev_tally = prev.
DecideLoop(T, total_weight, prev, height) ==
    IF height < 0 THEN ResSome(0, max_bhash(prev))
    ELSE IF ParentsPanics(prev) THEN ResPanic
    ELSE LET par == TallyParents(prev)
             h_tally == IF height \in DOMAIN T
                        THEN TallyExtend(par, TallyIter(T[height]))
                        ELSE par
         IN  IF max_w(h_tally) * 2 > total_weight
             THEN LET filtered == TallyFilter(prev, height, max_bhash(h_tally))
                  IN  IF ~IsNoTally(filtered)
                      THEN ResSome(height + 1, max_bhash(filtered))
                      ELSE ResSome(height, max_bhash(h_tally))
             ELSE DecideLoop(T, total_weight, h_tally, height - 1)

find_decided(T) ==
    IF DOMAIN T = {} THEN ResNone
    ELSE DecideLoop(T, TotalWeight(T), T[MaxKey(T)], MaxKey(T) - 1)

\* ---------------------------------- find_decided in machine arithmetic
\* Weights are unsigned words of WordBits bits (u64 in the code).  The
\* product max_w() * 2 is computed in that width: a build with overflow
\* checks (debug) panics when it does not fit, a build without (release)
\* keeps it modulo 2^WordBits.
WordModulus == 2 ^ WordBits
Builds == {"debug", "release"}
ResOverflow == [bhash |-> NoBlock, height |-> 0, kind |-> "Overflow"]

RECURSIVE DecideLoopMachine(_, _, _, _, _)
DecideLoopMachine(build, T, total_weight, prev, height) ==
    IF height < 0 THEN ResSome(0, max_bhash(prev))
    ELSE IF ParentsPanics(prev) THEN ResPanic
    ELSE LET par == TallyParents(prev)
             h_tally == IF height \in DOMAIN T
                        THEN TallyExtend(par, TallyIter(T[height]))
                        ELSE par
             twice == max_w(h_tally) * 2
         IN  IF twice >= WordModulus /\ build = "debug" THEN ResOverflow
             ELSE IF twice % WordModulus > total_weight
             THEN LET filtered == TallyFilter(prev, height, max_bhash(h_tally))
                  IN  IF ~IsNoTally(filtered)
                      THEN ResSome(height + 1, max_bhash(filtered))
                      ELSE ResSome(height, max_bhash(h_tally))
             ELSE DecideLoopMachine(build, T, total_weight, h_tally, height - 1)

find_decided_machine(build, T) ==
    IF DOMAIN T = {} THEN ResNone
    ELSE DecideLoopMachine(build, T, TotalWeight(T), T[MaxKey(T)], MaxKey(T) - 1)

\* ------------------------------------------------- Panorama and Vote
Validators == 0..(NumValidators - 1)

ObsNone == [kind |-> "None", hash |-> NoBlock]
ObsCorrect(h) == [kind |-> "Correct", hash |-> h]
ObsFaulty == [kind |-> "Faulty", hash |-> NoBlock]

\* Observation::correct: the vote hash, NoBlock for Option::None
correct(obs) == IF obs.kind = "Correct" THEN obs.hash ELSE NoBlock

\* Observation::is_correct
is_correct(obs) == obs.kind = "Correct"

PanoramaNew(n) == [i \in 0..(n - 1) |-> ObsNone]
PanoramaGet(p, idx) == p[idx]
PanoramaUpdate(p, idx, obs) == [p EXCEPT ![idx] = obs]

\* is_empty that takes a faulty validator for an observation
PanoramaIsEmptyAllNone(p) == \A i \in DOMAIN p : p[i] = ObsNone

\* Panorama::is_empty: no observation is correct
PanoramaIsEmpty(p) == ~(\E i \in DOMAIN p : is_correct(p[i]))

RECURSIVE TrailingZerosOf(_)
TrailingZerosOf(s) == IF s % 2 = 1 THEN 0 ELSE 1 + TrailingZerosOf(s \div 2)
\* u64::trailing_zeros
trailing_zeros(s) == IF s = 0 THEN U64Bits ELSE TrailingZerosOf(s)

\* Option<Vec<ConsensusValue>>: <<>> is None, <<vec>> is Some(vec)
NoValues == <<>>
ValuesChoices == {NoValues, << <<>> >>, << <<1>> >>}

NoVote == [panorama |-> PanoramaNew(NumValidators), seq_number |-> 0, sender |-> 0,
           block |-> NoBlock, skip_idx |-> <<>>]

RECURSIVE SkipLoopFirstEntry(_, _, _, _)
\* the loop reading old_vote.skip_idx[0] in every round
SkipLoopFirstEntry(vmap, skip_idx, i, n) ==
    IF i >= n THEN [ok |-> TRUE, idx |-> skip_idx]
    ELSE IF skip_idx[i + 1] \notin DOMAIN vmap THEN [ok |-> FALSE, idx |-> skip_idx]
    ELSE LET old_vote == vmap[skip_idx[i + 1]]
         IN  IF Len(old_vote.skip_idx) < 1 THEN [ok |-> FALSE, idx |-> skip_idx]
             ELSE SkipLoopFirstEntry(vmap, Append(skip_idx, old_vote.skip_idx[1]),
                                     i + 1, n)

RECURSIVE SkipLoop(_, _, _, _)
\* for i in 0..trailing_zeros: push state.vote(&skip_idx[i]).skip_idx[i].
\* (Rust indexes from 0, sequences from 1.)  ok = FALSE: an unknown hash in
\* state.vote or an index out of range, both of which panic.
SkipLoop(vmap, skip_idx, i, n) ==
    IF i >= n THEN [ok |-> TRUE, idx |-> skip_idx]
    ELSE IF skip_idx[i + 1] \notin DOMAIN vmap THEN [ok |-> FALSE, idx |-> skip_idx]
    ELSE LET old_vote == vmap[skip_idx[i + 1]]
         IN  IF Len(old_vote.skip_idx) < i + 1 THEN [ok |-> FALSE, idx |-> skip_idx]
             ELSE SkipLoop(vmap, Append(skip_idx, old_vote.skip_idx[i + 1]), i + 1, n)

VoteResult(kind, vote, values) == [kind |-> kind, vote |-> vote, values |-> values]

\* Vote::new that takes an empty list of values for no values
VoteNewEmptyAsAbsent(wvote, fork_choice, vmap) ==
    LET noValues == wvote.values = NoValues \/ wvote.values = << <<>> >>
        prev == correct(PanoramaGet(wvote.panorama, wvote.sender))
        skip == IF prev # NoBlock
                THEN SkipLoop(vmap, <<prev>>, 0, trailing_zeros(wvote.seq_number))
                ELSE [ok |-> TRUE, idx |-> <<>>]
    IN  IF noValues /\ fork_choice = NoBlock
        THEN VoteResult("panic_fork_choice", NoVote, NoValues)
        ELSE IF ~skip.ok THEN VoteResult("panic_skip_idx", NoVote, NoValues)
        ELSE VoteResult("ok",
                 [panorama |-> wvote.panorama, seq_number |-> wvote.seq_number,
                  sender |-> wvote.sender,
                  block |-> IF noValues THEN fork_choice ELSE wvote.hash,
                  skip_idx |-> skip.idx],
                 wvote.values)

\* Vote::new(wvote, fork_choice, state); fork_choice = NoBlock is None.
VoteNew(wvote, fork_choice, vmap) ==
    LET prev == correct(PanoramaGet(wvote.panorama, wvote.sender))
        skip == IF prev # NoBlock
                THEN SkipLoop(vmap, <<prev>>, 0, trailing_zeros(wvote.seq_number))
                ELSE [ok |-> TRUE, idx |-> <<>>]
    IN  IF wvote.values = NoValues /\ fork_choice = NoBlock
        THEN VoteResult("panic_fork_choice", NoVote, NoValues)
        ELSE IF ~skip.ok THEN VoteResult("panic_skip_idx", NoVote, NoValues)
        ELSE VoteResult("ok",
                 [panorama |-> wvote.panorama, seq_number |-> wvote.seq_number,
                  sender |-> wvote.sender,
                  block |-> IF wvote.values # NoValues THEN wvote.hash
                            ELSE fork_choice,
                  skip_idx |-> skip.idx],
                 wvote.values)

\* ------------------------------------------------------------ the machine
Heights == 0..(Cardinality(Blocks) - 1)
\* Weights of one added vote.  add accumulates, so a heavier vote leaves the
\* Tally that as many unit votes for the same block leave.
Weights == {0, 1}

NoOp == [bhash |-> NoBlock, height |-> 0, name |-> "none", res |-> ResNone]
NoTop == [n |-> 0, bhash |-> NoBlock, w |-> 0, name |-> "none"]

NoWire == [hash |-> NoBlock, panorama |-> PanoramaNew(NumValidators),
           seq_number |-> 0, sender |-> 0, values |-> NoValues]
NoPop == [idx |-> 0, obs |-> ObsNone, name |-> "none", empty |-> TRUE]
NoVres == [wvote |-> NoWire, fork_choice |-> NoBlock, name |-> "none",
           res |-> VoteResult("none", NoVote, NoValues)]

Init ==
    /\ parent \in Trees
    /\ tallies = TalliesDefault
    /\ fed = EmptyBag
    /\ pure = TRUE
    /\ nAdds = 0
    /\ op = NoOp
    /\ tally = NoTally
    /\ top = NoTop
    /\ nOps = 0
    /\ votes = [h \in {} |-> NoVote]
    /\ pan = PanoramaNew(NumValidators)
    /\ vres = NoVres
    /\ nVotes = 0
    /\ pano = PanoramaNew(NumValidators)
    /\ plog = [n |-> NumValidators, writes |-> <<>>]
    /\ pop = NoPop

\* Tallies::add(height(bhash), bhash, weight): a vote is filed at the height
\* of the block it endorses.
Add(b, w) ==
    /\ nAdds < MaxAdds
    /\ tallies' = TalliesAdd(tallies, Height(b), b, w)
    /\ fed' = IF pure THEN fed (+) SetToBag({<<Height(b), b, w>>}) ELSE fed
    /\ nAdds' = nAdds + 1
    /\ op' = [NoOp EXCEPT !.name = "add"]
    /\ UNCHANGED <<parent, pure, tallyVars, voteVars, panVars>>

\* Tallies::find_decided(state)
Decide ==
    /\ op.name # "find_decided"
    /\ op' = [NoOp EXCEPT !.name = "find_decided", !.res = find_decided(tallies)]
    /\ UNCHANGED <<parent, tallies, fed, pure, nAdds, tallyVars, voteVars, panVars>>

\* Tallies::filter(height, bhash, state)
Filter(h, b) ==
    /\ tallies' = TalliesFilter(tallies, h, b)
    /\ pure' = FALSE
    /\ fed' = EmptyBag
    /\ op' = [NoOp EXCEPT !.name = "filter", !.height = h, !.bhash = b]
    /\ UNCHANGED <<parent, nAdds, tallyVars, voteVars, panVars>>

\* The driver's step after a decision (h, b): tallies.filter(h, b, state)
\* with the block find_decided has just returned.
FilterDecided ==
    /\ op.name = "find_decided"
    /\ op.res.kind = "Some"
    /\ tallies' = TalliesFilter(tallies, op.res.height, op.res.bhash)
    /\ pure' = FALSE
    /\ fed' = EmptyBag
    /\ op' = [NoOp EXCEPT !.name = "filter_decided",
                          !.height = op.res.height, !.bhash = op.res.bhash]
    /\ UNCHANGED <<parent, nAdds, tallyVars, voteVars, panVars>>

Next ==
    \/ \E b \in Blocks, w \in Weights : Add(b, w)
    \/ Decide
    \/ \E h \in Heights, b \in Blocks : Filter(h, b)
    \/ FilterDecided

Spec == Init /\ [][Next]_vars

\* ------------------------------ fixed-width weights (SpecMachine)
\* Votes are added while the total weight fits in a word, and find_decided
\* runs with the product of the majority test computed in that word, in
\* either build.
AddWord(b, w) ==
    /\ TotalWeight(tallies) + w < WordModulus
    /\ Add(b, w)

DecideMachine(build) ==
    /\ op.name # "find_decided_machine"
    /\ op' = [NoOp EXCEPT !.name = "find_decided_machine",
                          !.res = find_decided_machine(build, tallies)]
    /\ UNCHANGED <<parent, tallies, fed, pure, nAdds, tallyVars, voteVars, panVars>>

NextMachine ==
    \/ \E b \in Blocks, w \in Weights : AddWord(b, w)
    \/ \E build \in Builds : DecideMachine(build)

SpecMachine == Init /\ [][NextMachine]_vars

\* --------------------------------- the decide-then-filter loop (SpecLoop)
\* Votes of positive weight are added, and the driver alternates
\* find_decided and filter.  Every call runs to completion and the driver
\* applies one step after the other, so a step that stays enabled is taken.
AddPositive(b) == Add(b, 1)

NextLoop ==
    \/ \E b \in Blocks : AddPositive(b)
    \/ Decide
    \/ FilterDecided

\* Weak fairness of Decide, WF_vars(Decide), with ENABLED <<Decide>>_vars
\* written as the state predicate it equals: Decide is enabled unless
\* find_decided was the last operation, and every Decide step changes op.
FairDecide ==
    []<>(op.name = "find_decided") \/ []<><<Decide>>_vars

SpecLoop ==
    Init /\ [][NextLoop]_vars /\ FairDecide /\ WF_vars(FilterDecided)

\* ------------------------------------------------- one Tally (SpecTally)
Pairs == Blocks \X Weights
\* The iterators of <<bhash, w>> items that the remaining budget allows.
Iters == UNION {[1..n -> Pairs] : n \in 0..(MaxTallyOps - nOps)}
Cost(iter) == IF iter = <<>> THEN 1 ELSE Len(iter)

\* One operation on the Tally; cost is the number of entries it feeds.  The
\* record of the operation keeps its name, the arguments of new / add and the
\* number of entries of the Tally it was applied to.
TallyStep(name, t, b, w, cost) ==
    /\ nOps + cost <= MaxTallyOps
    /\ nOps' = nOps + cost
    /\ tally' = t
    /\ top' = [n |-> Cardinality(DOMAIN tally.votes), bhash |-> b, w |-> w,
               name |-> name]
    /\ UNCHANGED <<parent, talliesVars, voteVars, panVars>>

\* Tally::new(bhash, w)
TNew(b, w) == TallyStep("new", TallyNew(b, w), b, w, 1)

\* Tally::try_from_iter(iter)
TTryFromIter(iter) ==
    TallyStep("try_from_iter", try_from_iter(iter), NoBlock, 0, Cost(iter))

\* tally.add(bhash, weight)
TAdd(b, w) ==
    /\ ~IsNoTally(tally)
    /\ TallyStep("add", TallyAdd(tally, b, w), b, w, 1)

\* tally.extend(iter)
TExtend(iter) ==
    /\ ~IsNoTally(tally)
    /\ TallyStep("extend", TallyExtend(tally, iter), NoBlock, 0, Cost(iter))

\* tally.parents(state): panics when an entry is the genesis block
TParents ==
    /\ ~IsNoTally(tally)
    /\ IF ParentsPanics(tally)
       THEN TallyStep("parents_panic", tally, NoBlock, 0, 1)
       ELSE TallyStep("parents", TallyParents(tally), NoBlock, 0, 1)

\* tally.filter(height, bhash, state)
TFilter(h, b) ==
    /\ ~IsNoTally(tally)
    /\ TallyStep("filter", TallyFilter(tally, h, b), NoBlock, 0, 1)

NextTally ==
    \/ \E b \in Blocks, w \in Weights : TNew(b, w)
    \/ \E iter \in Iters : TTryFromIter(iter)
    \/ \E b \in Blocks, w \in Weights : TAdd(b, w)
    \/ \E iter \in Iters : TExtend(iter)
    \/ TParents
    \/ \E h \in Heights, b \in Blocks : TFilter(h, b)

SpecTally == Init /\ [][NextTally]_vars

\* --------------------------------------------- vote construction (SpecVote)
\* Number of votes of validator v in the State: the next sequence number.
SeqOf(v) == Cardinality({h \in DOMAIN votes : votes[h].sender = v})
\* The hash of the wire vote of validator v with sequence number s.
VHash(v, s) == s * NumValidators + v + 1
\* The blocks of the State: the votes that introduced values.
BlockHashes == {h \in DOMAIN votes : votes[h].block = h}
\* Fork choices handed to Vote::new: none, or the newest or oldest block.
ForkChoices ==
    {NoBlock} \cup {h \in BlockHashes : \A g \in BlockHashes : g <= h}
              \cup {h \in BlockHashes : \A g \in BlockHashes : h <= g}

\* The driver hands validator v's next wire vote to Vote::new and inserts the
\* Vote into the State; a panic of Vote::new leaves the State as it was.
AddVote(v, values, fc) ==
    /\ nVotes < MaxVotes
    /\ LET wvote == [hash |-> VHash(v, SeqOf(v)), panorama |-> pan,
                     seq_number |-> SeqOf(v), sender |-> v, values |-> values]
           res == VoteNew(wvote, fc, votes)
       IN  /\ vres' = [wvote |-> wvote, fork_choice |-> fc, name |-> "new",
                       res |-> res]
           /\ IF res.kind = "ok"
              THEN /\ votes' = [h \in DOMAIN votes \cup {wvote.hash} |->
                                   IF h = wvote.hash THEN res.vote ELSE votes[h]]
                   /\ pan' = PanoramaUpdate(pan, v, ObsCorrect(wvote.hash))
              ELSE UNCHANGED <<votes, pan>>
    /\ nVotes' = nVotes + 1
    /\ UNCHANGED <<parent, talliesVars, tallyVars, panVars>>

NextVote ==
    \E v \in Validators, values \in ValuesChoices, fc \in ForkChoices :
        AddVote(v, values, fc)

\* Vote::new reads no block of the State: one block tree stands for all.
InitVote == Init /\ parent = [b \in Blocks |-> b - 1]

SpecVote == InitVote /\ [][NextVote]_vars

\* ------------------------------------------- one Panorama (SpecPanorama)
\* The observations written to a Panorama: None, Faulty, and Correct of
\* two vote hashes.
Observations == {ObsNone, ObsFaulty} \cup {ObsCorrect(h) : h \in {1, 2}}
PanoramaSizes == 0..NumValidators

\* Panorama::new(n)
PNew(n) ==
    /\ pano' = PanoramaNew(n)
    /\ plog' = [n |-> n, writes |-> <<>>]
    /\ pop' = [NoPop EXCEPT !.name = "new"]
    /\ UNCHANGED <<parent, talliesVars, tallyVars, voteVars>>

\* Panorama::update(idx, obs), idx within the panorama (the Vec index
\* panics otherwise)
PUpdate(idx, obs) ==
    /\ Len(plog.writes) < MaxUpdates
    /\ idx \in DOMAIN pano
    /\ pano' = PanoramaUpdate(pano, idx, obs)
    /\ plog' = [plog EXCEPT !.writes = Append(@, <<idx, obs>>)]
    /\ pop' = [NoPop EXCEPT !.name = "update", !.idx = idx, !.obs = obs]
    /\ UNCHANGED <<parent, talliesVars, tallyVars, voteVars>>

\* Panorama::get(idx)
PGet(idx) ==
    /\ idx \in DOMAIN pano
    /\ pop' = [NoPop EXCEPT !.name = "get", !.idx = idx,
                            !.obs = PanoramaGet(pano, idx)]
    /\ UNCHANGED <<parent, talliesVars, tallyVars, voteVars, pano, plog>>

\* Panorama::is_empty()
PIsEmpty ==
    /\ pop' = [NoPop EXCEPT !.name = "is_empty", !.empty = PanoramaIsEmpty(pano)]
    /\ UNCHANGED <<parent, talliesVars, tallyVars, voteVars, pano, plog>>

NextPanorama ==
    \/ \E n \in PanoramaSizes : PNew(n)
    \/ \E idx \in PanoramaSizes, obs \in Observations : PUpdate(idx, obs)
    \/ \E idx \in PanoramaSizes : PGet(idx)
    \/ PIsEmpty

\* A Panorama reads no block of the State either.
SpecPanorama == InitVote /\ [][NextPanorama]_vars

\* ------------------------------------------------ vocabulary of the claims
\* The entries (height, hash) of a Tallies and their weights.
Entries(T) == {<<h, b>> : h \in DOMAIN T, b \in Blocks} \cap
              UNION {{<<h, b>> : b \in DOMAIN T[h].votes} : h \in DOMAIN T}
EntryW(T, e) == T[e[1]].votes[e[2]]

RECURSIVE SumW(_, _)
SumW(T, es) ==
    IF es = {} THEN 0
    ELSE LET e == CHOOSE x \in es : TRUE
         IN  EntryW(T, e) + SumW(T, es \ {e})

Total(T) == SumW(T, Entries(T))

\* Entries whose block has b as its ancestor at height h (b's sub-tree).
SubTree(T, h, b) == {e \in Entries(T) : find_ancestor(e[2], h) = b}
Support(T, h, b) == SumW(T, SubTree(T, h, b))
HasMajority(T, h, b) == 2 * Support(T, h, b) > Total(T)

Decided == op.name = "find_decided"
DecidedSome == Decided /\ op.res.kind = "Some"

\* C1 as stated: whenever find_decided returns (h, b), the entries in the
\* sub-tree of b at height h weigh strictly more than half of the total.
C1_Majority ==
    DecidedSome => HasMajority(tallies, op.res.height, op.res.bhash)

\* C1 amended: whenever find_decided returns (h, b) on a Tallies of positive
\* total weight, strictly more than half of the total weight lies in the
\* sub-tree of b or, when h >= 1, in the sub-tree of b's parent at height
\* h - 1; on a Tallies of total weight zero the result is at height 0.
C1_MajorityOfBlockOrParent ==
    DecidedSome =>
        LET h == op.res.height
            b == op.res.bhash
        IN  IF Total(tallies) = 0 THEN h = 0
            ELSE \/ HasMajority(tallies, h, b)
                 \/ h >= 1 /\ HasMajority(tallies, h - 1, BlockParent(b))

\* find_decided returned a child of the majority block that has no majority
\* of its own.
C1_Witness ==
    /\ DecidedSome
    /\ op.res.height >= 2
    /\ ~HasMajority(tallies, op.res.height, op.res.bhash)
    /\ HasMajority(tallies, op.res.height - 1, BlockParent(op.res.bhash))

\* ---- C2: the reference result
BlocksAt(h) == {b \in Blocks : Height(b) = h}
Children(b) == {c \in Blocks : BlockParent(c) = b}
\* The block of S (all at height h) with the greatest (support, hash) pair.
Best(T, h, S) ==
    CHOOSE c \in S : \A d \in S :
        ~PairLess(<<Support(T, h, c), c>>, <<Support(T, h, d), d>>)
\* Heights below the maximum height present at which a block has a majority.
MajorityHeights(T) ==
    {h \in 0..(MaxKey(T) - 1) : \E b \in BlocksAt(h) : HasMajority(T, h, b)}
\* Children of b (at height h + 1) with at least one entry in their sub-tree.
VotedChildren(T, h, b) == {c \in Children(b) : SubTree(T, h + 1, c) # {}}

\* The reference of C2; kids(h, b) is the set of children the choice ranges over.
Reference(T, kids(_, _)) ==
    IF MajorityHeights(T) = {}
    THEN ResSome(0, Best(T, 0, BlocksAt(0)))
    ELSE LET H == CHOOSE h \in MajorityHeights(T) :
                      \A g \in MajorityHeights(T) : g <= h
             bstar == CHOOSE b \in BlocksAt(H) : HasMajority(T, H, b)
         IN  IF \E e \in SubTree(T, H, bstar) : e[1] > H
             THEN ResSome(H + 1, Best(T, H + 1, kids(H, bstar)))
             ELSE ResSome(H, bstar)

AllChildren(h, b) == Children(b)
ChildrenWithEntries(h, b) == VotedChildren(tallies, h, b)

\* C2 as stated: find_decided equals the reference in which c is the child
\* of b* with the greatest (support, hash) pair among all children of b*.
C2_Reference ==
    (Decided /\ DOMAIN tallies # {}) =>
        op.res = Reference(tallies, AllChildren)

\* C2 amended: find_decided equals the reference in which c is the child of
\* b* with the greatest (support, hash) pair among the children of b* that
\* have at least one entry in their sub-tree.
C2_ReferenceVotedChildren ==
    (Decided /\ DOMAIN tallies # {}) =>
        op.res = Reference(tallies, ChildrenWithEntries)

\* The decision advanced to a child chosen by the hash tie-break between two
\* children of equal support.
C2_Witness ==
    /\ DecidedSome
    /\ op.res.height >= 1
    /\ \E c \in VotedChildren(tallies, op.res.height - 1, BlockParent(op.res.bhash)) :
          /\ c # op.res.bhash
          /\ Support(tallies, op.res.height, c)
                = Support(tallies, op.res.height, op.res.bhash)
          /\ Support(tallies, op.res.height, c) > 0

\* C3: after Tallies::filter(h, b, state) every remaining entry (h', b') has
\* h' > h and find_ancestor(b', h) = Some(b).
C3_FilterCorrect ==
    op.name = "filter" =>
        \A e \in Entries(tallies) :
            /\ e[1] > op.height
            /\ find_ancestor(e[2], op.height) = op.bhash

\* A filter left entries at two heights above the filter height.
C3_Witness ==
    /\ op.name = "filter"
    /\ Cardinality(DOMAIN tallies) >= 2

\* ---- C4: the cached maximum of a Tally
MaxWeightOf(t) ==
    CHOOSE w \in {t.votes[b] : b \in DOMAIN t.votes} :
        \A b \in DOMAIN t.votes : t.votes[b] <= w
MaxConsistent(t) ==
    /\ t.max[1] = MaxWeightOf(t)
    /\ t.max[2] \in DOMAIN t.votes
    /\ t.votes[t.max[2]] = MaxWeightOf(t)
    /\ \A b \in DOMAIN t.votes : t.votes[b] = MaxWeightOf(t) => b <= t.max[2]

\* C4: every Tally reached by new, add, extend, try_from_iter, parents and
\* filter has max.0 = the largest weight among its entries and max.1 = the
\* greatest hash among the entries of that weight.
C4_MaxConsistent == ~IsNoTally(tally) => MaxConsistent(tally)

\* An add left two entries tied at the largest weight, the added block being
\* the one of the smaller hash.
C4_Witness ==
    /\ top.name = "add"
    /\ \E b \in DOMAIN tally.votes :
          /\ b > top.bhash
          /\ tally.votes[b] = tally.votes[top.bhash]
          /\ tally.votes[b] = MaxWeightOf(tally)

\* ---- C5: order of feeding
RECURSIVE BagOrders(_)
\* All sequences that list the elements of bag B, each as often as B holds it.
BagOrders(B) ==
    IF B = EmptyBag THEN {<<>>}
    ELSE UNION {{<<t>> \o o : o \in BagOrders(B (-) SetToBag({t}))} :
                    t \in BagToSet(B)}

\* C5: whatever the order in which from_iter is fed the triples of one
\* multiset, it builds the same entries and cached maxima (those of the
\* Tallies at hand, built in the order of the adds), and find_decided gives
\* the same result.
C5_Determinism ==
    (pure /\ op.name = "add") =>
        LET built == {from_iter(o) : o \in BagOrders(fed)}
        IN  /\ built = {tallies}
            /\ {find_decided(T) : T \in built} = {find_decided(tallies)}

\* Three triples were fed, two of them equal-weight votes for blocks of one
\* height.
C5_Witness ==
    /\ pure
    /\ op.name = "add"
    /\ BagCardinality(fed) = 3
    /\ \E h \in DOMAIN tallies : \E a, b \in DOMAIN tallies[h].votes :
          /\ a # b
          /\ tallies[h].votes[a] = tallies[h].votes[b]
          /\ tallies[h].votes[a] = max_w(tallies[h])

\* C6: find_decided returns None exactly on the empty Tallies, and some
\* (height, hash) on every other one.
C6_NoneIffEmpty ==
    Decided =>
        /\ (op.res.kind = "None") <=> (DOMAIN tallies = {})
        /\ (DOMAIN tallies # {}) => (op.res.kind = "Some")

\* find_decided answered on a Tallies with entries at height >= 1 whose
\* weights are all zero.
C6_Witness ==
    /\ DecidedSome
    /\ Total(tallies) = 0
    /\ MaxKey(tallies) >= 1

\* ---- C8 / C9: steps of SpecTally
RECURSIVE SumVotes(_, _)
SumVotes(t, bs) ==
    IF bs = {} THEN 0
    ELSE LET b == CHOOSE x \in bs : TRUE
         IN  t.votes[b] + SumVotes(t, bs \ {b})

\* C8: a parents step conserves the weight, and every parent holds the sum
\* of the weights of its children in the original tally.
C8_ParentsConserve ==
    [][top'.name = "parents" =>
         /\ TallyWeight(tally') = TallyWeight(tally)
         /\ DOMAIN tally'.votes = {BlockParent(b) : b \in DOMAIN tally.votes}
         /\ \A p \in DOMAIN tally'.votes :
               tally'.votes[p] =
                   SumVotes(tally, {c \in DOMAIN tally.votes : BlockParent(c) = p})
      ]_vars

\* parents collapsed two weighted children onto one parent.
C8_Witness ==
    /\ top.name = "parents"
    /\ top.n = 2
    /\ Cardinality(DOMAIN tally.votes) = 1
    /\ TallyWeight(tally) = 2

\* C9: an add of weight w > 0 for hash h raises weight() by w, does not
\* lower max_w(), and leaves the weight of every other entry unchanged.
C9_MonotoneAdd ==
    [][(top'.name = "add" /\ top'.w > 0) =>
         /\ TallyWeight(tally') = TallyWeight(tally) + top'.w
         /\ max_w(tally') >= max_w(tally)
         /\ \A x \in DOMAIN tally.votes :
               /\ x \in DOMAIN tally'.votes
               /\ x # top'.bhash => tally'.votes[x] = tally.votes[x]
      ]_vars

\* A positive weight was added to an entry that already had weight, next to
\* another entry.
C9_Witness ==
    /\ top.name = "add"
    /\ top.w > 0
    /\ top.n = 2
    /\ Cardinality(DOMAIN tally.votes) = 2
    /\ tally.votes[top.bhash] >= 2

\* ---- C7: shape of the skip list
RECURSIVE Pow2(_)
Pow2(i) == IF i = 0 THEN 1 ELSE 2 * Pow2(i - 1)
\* The greatest i such that 2^i divides s (s > 0).
TwoAdic(s) == CHOOSE i \in 0..s : s % Pow2(i) = 0 /\ s % Pow2(i + 1) # 0

SkipShape(v) ==
    IF v.seq_number = 0 THEN v.skip_idx = <<>>
    ELSE /\ Len(v.skip_idx) = TwoAdic(v.seq_number) + 1
         /\ \A i \in 0..TwoAdic(v.seq_number) :
               /\ v.skip_idx[i + 1] \in DOMAIN votes
               /\ votes[v.skip_idx[i + 1]].sender = v.sender
               /\ votes[v.skip_idx[i + 1]].seq_number = v.seq_number - Pow2(i)

\* C7: every vote constructed in sequence has an empty skip_idx at sequence
\* number 0 and otherwise trailing_zeros(s) + 1 entries, entry i being the
\* hash of the same sender's vote number s - 2^i; and no construction reads
\* a skip_idx out of range.
C7_SkipListShape ==
    /\ \A h \in DOMAIN votes : SkipShape(votes[h])
    /\ vres.res.kind # "panic_skip_idx"

\* A vote with sequence number 4 was constructed: its three skip entries
\* were read from the votes number 3 and 2.
C7_Witness ==
    /\ vres.res.kind = "ok"
    /\ vres.res.vote.seq_number = 4
    /\ Len(vres.res.vote.skip_idx) = 3
    /\ votes[vres.res.vote.skip_idx[3]].seq_number = 0

\* C10: Vote::new endorses the wire vote's own hash when it carries values
\* and the fork choice when it carries none, copies panorama, seq_number and
\* sender, returns the values unchanged, and aborts without a Vote when
\* neither values nor fork choice are there.
C10_EndorsedBlock ==
    vres.name = "new" =>
        LET w == vres.wvote
            fc == vres.fork_choice
            r == vres.res
        IN  /\ (w.values # NoValues) => (r.kind = "ok" /\ r.vote.block = w.hash)
            /\ (w.values = NoValues /\ fc # NoBlock) =>
                   (r.kind = "ok" /\ r.vote.block = fc)
            /\ (r.kind = "ok") =>
                   /\ r.vote.panorama = w.panorama
                   /\ r.vote.seq_number = w.seq_number
                   /\ r.vote.sender = w.sender
                   /\ r.values = w.values
                   /\ votes[w.hash] = r.vote
            /\ (w.values = NoValues /\ fc = NoBlock) =>
                   (r.kind = "panic_fork_choice" /\ w.hash \notin DOMAIN votes)

\* A wire vote carrying an empty list of values was constructed while a
\* different fork choice was at hand.
C10_Witness ==
    /\ vres.name = "new"
    /\ vres.res.kind = "ok"
    /\ vres.wvote.values = << <<>> >>
    /\ vres.fork_choice # NoBlock
    /\ vres.res.vote.block = vres.wvote.hash
    /\ vres.wvote.seq_number > 0

\* An entry is a proper descendant of the block b of height h when it lies
\* above h and its ancestor at height h is b.
ProperDescendant(e, h, b) == e[1] > h /\ find_ancestor(e[2], h) = b

\* C11 as stated: whenever find_decided returns (h, b) on a non-empty
\* Tallies, at least one entry is not a proper descendant of b (it lies at
\* or below h, or its ancestor at height h is another block).
C11_NotAncestorOfAll ==
    (DecidedSome /\ DOMAIN tallies # {}) =>
        \E e \in Entries(tallies) :
            ~ProperDescendant(e, op.res.height, op.res.bhash)

\* C14: whenever find_decided returns (h, b) with h >= 1, the parent of b,
\* a block of height h - 1, carries strictly more than half of the total
\* weight in its sub-tree: the result is a child of a majority block.
C14_ParentHasMajority ==
    (DecidedSome /\ op.res.height >= 1) =>
        /\ Height(op.res.bhash) = op.res.height
        /\ HasMajority(tallies, op.res.height - 1, BlockParent(op.res.bhash))

\* find_decided returned a block of height >= 2 that holds no strict
\* majority itself and has a voted sibling, while other entries lie outside
\* its parent's sub-tree.
C14_Witness ==
    /\ DecidedSome
    /\ op.res.height >= 2
    /\ ~HasMajority(tallies, op.res.height, op.res.bhash)
    /\ \E e \in Entries(tallies) :
           /\ e[1] = op.res.height
           /\ e[2] # op.res.bhash
           /\ BlockParent(e[2]) = BlockParent(op.res.bhash)
    /\ \E e \in Entries(tallies) :
           find_ancestor(e[2], op.res.height - 1) # BlockParent(op.res.bhash)

\* C17: find_decided never asks for the parent of a block of height 0: on
\* Tallies whose entries are filed at their blocks' heights, every call of
\* prev_tally.parents(state) in the loop is made on blocks of height >= 1,
\* so find_decided returns and does not abort.
C17_NoParentOfGenesis ==
    Decided => op.res.kind # "Panic"

\* find_decided walked from an entry of height >= 2 down to height 0, calling
\* parents at every height above 0, before it found its only majority there.
C17_Witness ==
    /\ DecidedSome
    /\ MaxKey(tallies) >= 2
    /\ MajorityHeights(tallies) = {0}
    /\ op.res.height = 1

\* C16: after any sequence of adds (each filed at the height of its block)
\* interleaved with filters, every stored tally is non-empty and every key
\* of the tally at height h is a block of height h; a vote is recorded at
\* the height of the block it endorses only, never at an ancestor's height.
C16_LazyPropagation ==
    /\ \A h \in DOMAIN tallies :
           /\ ~IsNoTally(tallies[h])
           /\ \A b \in DOMAIN tallies[h].votes : Height(b) = h
    /\ pure => Entries(tallies) = {<<t[1], t[2]>> : t \in BagToSet(fed)}

\* A vote for a block of height >= 2 was added after a filter, and the
\* Tallies holds nothing at any height below that of its lowest entry.
C16_Witness ==
    /\ op.name = "add"
    /\ ~pure
    /\ MaxKey(tallies) >= 2
    /\ Cardinality(DOMAIN tallies) = 1
    /\ nAdds = MaxAdds

AllPositive(T) == \A e \in Entries(T) : EntryW(T, e) > 0

\* C12: decisions of the driver are never reverted.  When the driver has
\* filtered by the decision (h, b) and what is left is non-empty with all
\* weights positive (as it is whenever the weights before the filter were
\* all positive), the next find_decided returns (h2, b2) with h2 > h and
\* b the ancestor of b2 at height h.
C12_DecisionsExtend ==
    (op.name = "filter_decided" /\ DOMAIN tallies # {} /\ AllPositive(tallies)) =>
        LET r == find_decided(tallies)
        IN  /\ r.kind = "Some"
            /\ r.height > op.height
            /\ find_ancestor(r.bhash, op.height) = op.bhash

\* The driver filtered by a decision at height >= 1, an entry of positive
\* weight is left above the decided block, and the next decision is a child
\* of the decided block.
C12_Witness ==
    /\ op.name = "filter_decided"
    /\ op.height >= 1
    /\ DOMAIN tallies # {}
    /\ AllPositive(tallies)
    /\ find_decided(tallies).height = op.height + 1

\* C13: the decide-then-filter loop terminates.  With all weights positive,
\* every filter by the decision just returned leaves fewer entries than it
\* found, and the loop ends with an empty Tallies on which find_decided
\* returns None.
C13_LoopTerminates ==
    /\ [][op'.name = "filter_decided" =>
             Cardinality(Entries(tallies')) < Cardinality(Entries(tallies))]_vars
    /\ <>[](DOMAIN tallies = {} /\ Decided /\ op.res = ResNone)

\* The loop has consumed all the votes that can be added and find_decided
\* has returned None on the Tallies the last filter emptied.
C13_Witness ==
    /\ Decided
    /\ op.res = ResNone
    /\ ~pure
    /\ nAdds = MaxAdds
    /\ DOMAIN tallies = {}

\* C15: Tallies::filter(h, b) keeps exactly the sub-tree of b above h.  The
\* entries of the result are the entries (h', b') of the input with h' > h
\* and b the ancestor of b' at height h, each at its height with its weight
\* unchanged; nothing at a height <= h is left, and no tally of the result
\* is empty.
C15_FilterFrame ==
    [][op'.name \in {"filter", "filter_decided"} =>
          /\ Entries(tallies') =
                 {e \in Entries(tallies) :
                      ProperDescendant(e, op'.height, op'.bhash)}
          /\ \A e \in Entries(tallies') : EntryW(tallies', e) = EntryW(tallies, e)
          /\ \A h \in DOMAIN tallies' : h > op'.height /\ ~IsNoTally(tallies'[h])]_vars

\* A filter by (h, b) with h >= 1 has left entries at two heights above h.
C15_Witness ==
    /\ op.name = "filter"
    /\ op.height >= 1
    /\ Cardinality(DOMAIN tallies) >= 2
    /\ nAdds = MaxAdds

\* C18 as stated: the majority test is exact in machine arithmetic.  On
\* every Tallies whose total weight fits in a word, find_decided computed
\* with the word-sized product max_w * 2 neither overflows nor departs from
\* find_decided computed with the mathematical test 2 * max_w > total.
C18_ExactMajorityTest ==
    (op.name = "find_decided_machine" /\ TotalWeight(tallies) < WordModulus) =>
        /\ op.res.kind # "Overflow"
        /\ op.res = find_decided(tallies)

RECURSIVE LastWritten(_, _)
\* The observation of the last update of slot i in the sequence of updates;
\* Observation::None when there is none.
LastWritten(writes, i) ==
    IF writes = <<>> THEN ObsNone
    ELSE IF writes[Len(writes)][1] = i THEN writes[Len(writes)][2]
    ELSE LastWritten(SubSeq(writes, 1, Len(writes) - 1), i)

\* C19: after Panorama::new(n) and any updates of slots below n, the
\* panorama has exactly n slots, get(i) is the observation last written to
\* slot i (None if it was never written, so an update changes no other
\* slot), and is_empty() holds exactly when no slot holds Correct.
C19_PanoramaSlots ==
    /\ DOMAIN pano = 0..(plog.n - 1)
    /\ \A i \in DOMAIN pano : PanoramaGet(pano, i) = LastWritten(plog.writes, i)
    /\ PanoramaIsEmpty(pano) <=>
           ~(\E i \in 0..(plog.n - 1) : LastWritten(plog.writes, i).kind = "Correct")
    /\ pop.name = "get" => pop.obs = LastWritten(plog.writes, pop.idx)
    /\ pop.name = "is_empty" =>
           (pop.empty <=> \A i \in 0..(plog.n - 1) :
                              LastWritten(plog.writes, i).kind \in {"None", "Faulty"})

\* is_empty() returned true on a panorama one slot of which was Correct and
\* has been overwritten with Faulty, while another slot was never written.
C19_Witness ==
    /\ pop.name = "is_empty"
    /\ pop.empty
    /\ \E i \in DOMAIN pano : pano[i] = ObsFaulty
    /\ \E k \in 1..Len(plog.writes) : plog.writes[k][2].kind = "Correct"
    /\ \E i \in DOMAIN pano : \A k \in 1..Len(plog.writes) : plog.writes[k][1] # i

====
